---- MODULE Spec2Model ----
(***************************************************************************)
(* Model of sublib_cli.py: one run of the command line tool, from main()   *)
(* being entered to the process ending.  Paths are sequences of            *)
(* characters, the file system is an input chosen in Init, and the calls   *)
(* the run makes (discovery, encoding detection, classification, adapter   *)
(* construction, writes) are recorded in a history variable.               *)
(***************************************************************************)
EXTENDS Integers, Sequences, FiniteSets, TLC

\* Largest number of files in the top-level directory.
MaxFiles == 2

VARIABLES
    arguments,        \* argparse.Namespace: command, path, form, log
    ossep,            \* os.sep of the platform the run is on
    disk,             \* file path -> [encoding, format] of the file's bytes
    listing,          \* os.walk(root)[0][2]: names in the top directory
    pc,               \* position of the run in main / __main__
    found,            \* the list find_files returned
    idx,              \* index of the running for loop
    input_files,      \* main's input_files
    output_files,     \* main's output_files
    input_subtitles,  \* main's input_subtitles
    log,              \* records emitted to the log file by this run
    stdout,           \* lines printed
    stderr,           \* message sys.exit() prints
    exitStatus,       \* process exit status (-1 while running)
    exc,              \* the exception being propagated ("none" when none)
    written,          \* output path -> content written by the run
    trace,            \* history of the calls made by the run
    endCalls,         \* how many times end() ran
    shutdowns         \* how many times logging.shutdown() was called by end()

vars == <<arguments, ossep, disk, listing, pc, found, idx, input_files,
          output_files, input_subtitles, log, stdout, stderr, exitStatus,
          exc, written, trace, endCalls, shutdowns>>

inputs == <<arguments, ossep, disk, listing>>

----------------------------------------------------------------------------
(* Strings as sequences of characters *)

Chars(s) ==
    CASE s = "mpl" -> <<"m", "p", "l">>
      [] s = "srt" -> <<"s", "r", "t">>
      [] s = "sub" -> <<"s", "u", "b">>
      [] s = "tmp" -> <<"t", "m", "p">>
      [] s = "txt" -> <<"t", "x", "t">>
      [] OTHER -> <<s>>

\* str.rfind("."): 1-based index of the last ".", 0 when there is none
\* (Python's 0-based result is this minus one, so "none" is -1).
RFindDot(s) ==
    LET hits == {i \in 1..Len(s) : s[i] = "."}
    IN  IF hits = {} THEN 0 ELSE CHOOSE i \in hits : \A j \in hits : j <= i

\* The characters os.path treats as separators on this platform.
Seps == IF ossep = "\\" THEN {"\\", "/"} ELSE {"/"}

LastSep(s) ==
    LET hits == {i \in 1..Len(s) : s[i] \in Seps}
    IN  IF hits = {} THEN 0 ELSE CHOOSE i \in hits : \A j \in hits : j <= i

\* os.path.basename
Basename(s) == SubSeq(s, LastSep(s) + 1, Len(s))

----------------------------------------------------------------------------
(* The file system and the external detectors *)

Formats == {"mpl", "srt", "sub", "tmp"}
Tags == Formats \cup {"undefined"}
Encodings == {"utf-8", "None"}

\* The file names a directory may hold, in alphabetical order.
NameList == << <<"a", ".", "s", "r", "t">>, <<"a", ".", "s", "u", "b">>, <<"b">> >>

Root == <<ossep, "d">>
SubDir == Root \o <<ossep, "s">>
NestedFile == SubDir \o <<ossep, "c", ".", "s", "r", "t">>
Missing == <<ossep, "x">>

\* The real path of the top-level file called name.
FileIn(dir, name) == dir \o <<ossep>> \o name

\* os.path.isfile, os.path.isdir, os.path.exists
IsFile(p) == p \in DOMAIN disk \/ p \in DOMAIN written
IsDir(p) == p = Root \/ (p = SubDir /\ NestedFile \in DOMAIN disk)
Exists(p) == IsFile(p) \/ IsDir(p)

\* chardet.detect(bytes)["encoding"] and sublib.detect(file, encoding): both
\* are functions of the bytes of the file.
Chardet(file) == disk[file].encoding
SublibDetect(file, encoding) == disk[file].format

----------------------------------------------------------------------------
(* The functions of sublib_cli.py *)

\* set_logger(file, level): the level main configures
Level == IF arguments.log THEN "INFO" ELSE "CRITICAL"

Record(msg, arg) == [msg |-> msg, arg |-> arg]

\* logger.info(...): emitted only at level INFO
LoggerInfo(l, msg, arg) ==
    IF Level = "INFO" THEN Append(l, Record(msg, arg)) ELSE l

\* logger.critical(...): emitted at both levels
LoggerCritical(l, msg, arg) == Append(l, Record(msg, arg))

\* find_files(path); it raises (files is unbound) when path is neither
FindFilesRaises(p) == ~IsFile(p) /\ ~IsDir(p)

find_files(p) ==
    IF IsDir(p)
    THEN [i \in 1..Len(listing) |-> p \o <<"\\">> \o listing[i]]
    ELSE <<p>>

\* A detect_encoding that substitutes a default when the detector has no
\* answer (the variant C7 is checked against)
detect_encoding_fallback(file) ==
    IF Chardet(file) = "None" THEN "utf-8" ELSE Chardet(file)

\* detect_encoding(file): the detector's answer, as it is
detect_encoding(file) == Chardet(file)

\* A get_subtitle with the srt and sub branches exchanged (the variant C6 is
\* checked against)
get_subtitle_swapped(subtitle) ==
    LET cls == CASE subtitle.format = "mpl" -> "MPlayer2"
                 [] subtitle.format = "srt" -> "MicroDVD"
                 [] subtitle.format = "sub" -> "SubRip"
                 [] subtitle.format = "tmp" -> "TMPlayer"
                 [] OTHER -> "dict"
    IN  [cls |-> cls, path |-> subtitle.path, encoding |-> subtitle.encoding]

\* get_subtitle(subtitle): the adapter object, or the dict handed in when no
\* branch matches
get_subtitle(subtitle) ==
    LET cls == CASE subtitle.format = "mpl" -> "MPlayer2"
                 [] subtitle.format = "srt" -> "SubRip"
                 [] subtitle.format = "sub" -> "MicroDVD"
                 [] subtitle.format = "tmp" -> "TMPlayer"
                 [] OTHER -> "dict"
    IN  [cls |-> cls, path |-> subtitle.path, encoding |-> subtitle.encoding]

\* get_new_path(file, form)
get_new_path(file, frm) ==
    LET p == file.path
        k == RFindDot(p)
        cut == IF k = 0 THEN SubSeq(p, 1, Len(p) - 1) ELSE SubSeq(p, 1, k - 1)
    IN  IF frm \in {"mpl", "tmp"} THEN cut \o <<".">> \o Chars("txt")
        ELSE IF frm \in {"srt", "sub"} THEN cut \o <<".">> \o Chars(frm)
        ELSE cut

\* subtitle.get_general_format() of an adapter: the entries of its file, as
\* parsed by that adapter
GetGeneralFormat(subtitle) ==
    [of |-> subtitle.cls, path |-> subtitle.path, encoding |-> subtitle.encoding]

\* new.set_from_general_format(lines); new.content
Content(new, lines) == [cls |-> new.cls, lines |-> lines]

NoContent == [cls |-> "", lines |-> [of |-> "", path |-> <<>>, encoding |-> ""]]

\* The forms dict of the detect branch
forms(tag) ==
    CASE tag = "mpl" -> "MPlayer2"
      [] tag = "srt" -> "SubRip"
      [] tag = "sub" -> "MicroDVD"
      [] tag = "tmp" -> "TMPlayer"
      [] tag = "undefined" -> "Unknown"

Event(op, file, enc, i, data) ==
    [op |-> op, file |-> file, enc |-> enc, i |-> i, data |-> data]

Line(text, file, frm) == [text |-> text, file |-> file, form |-> frm]

----------------------------------------------------------------------------
(* Initial states: the arguments and the file system *)

\* The listings os.walk may give: up to MaxFiles of the names, in alphabetical
\* or in reverse alphabetical order.
Listings ==
    LET picks == {s \in UNION {[1..n -> 1..Len(NameList)] : n \in 0..MaxFiles} :
                    \/ \A i, j \in 1..Len(s) : i < j => s[i] < s[j]
                    \/ \A i, j \in 1..Len(s) : i < j => s[i] > s[j]}
    IN  {[i \in 1..Len(s) |-> NameList[s[i]]] : s \in picks}

Init ==
    /\ ossep \in {"\\", "/"}
    /\ listing \in Listings
    /\ \E attr \in [1..Len(listing) -> Encodings \X Tags], nested \in BOOLEAN :
          LET top == {FileIn(Root, listing[i]) : i \in 1..Len(listing)}
              at(p) == CHOOSE i \in 1..Len(listing) : FileIn(Root, listing[i]) = p
          IN  disk = [p \in top \cup (IF nested THEN {NestedFile} ELSE {}) |->
                        IF p \in top
                        THEN [encoding |-> attr[at(p)][1], format |-> attr[at(p)][2]]
                        ELSE [encoding |-> "utf-8", format |-> "srt"]]
    /\ \E cmd \in {"convert", "detect"}, lg \in BOOLEAN,
          p \in {Root, Missing} \cup
                (IF listing # <<>> THEN {FileIn(Root, listing[1])} ELSE {}) :
          \E frm \in (IF cmd = "convert" THEN Formats ELSE {""}) :
             arguments = [command |-> cmd, path |-> p, form |-> frm, log |-> lg]
    /\ pc = "start"
    /\ found = <<>>
    /\ idx = 0
    /\ input_files = <<>>
    /\ output_files = <<>>
    /\ input_subtitles = <<>>
    /\ log = <<>>
    /\ stdout = <<>>
    /\ stderr = <<>>
    /\ exitStatus = -1
    /\ exc = "none"
    /\ written = << >>
    /\ trace = <<>>
    /\ endCalls = 0
    /\ shutdowns = 0

----------------------------------------------------------------------------
(* main *)

\* set_logger and logger.info("START")
Start ==
    /\ pc = "start"
    /\ log' = LoggerInfo(log, "START", <<>>)
    /\ pc' = "path"
    /\ UNCHANGED <<inputs, found, idx, input_files, output_files,
                   input_subtitles, stdout, stderr, exitStatus, exc, written,
                   trace, endCalls, shutdowns>>

\* os.path.exists(path) holds
PathFound ==
    /\ pc = "path"
    /\ Exists(arguments.path)
    /\ log' = LoggerInfo(log, "Path", <<arguments.path>>)
    /\ pc' = "find_files"
    /\ UNCHANGED <<inputs, found, idx, input_files, output_files,
                   input_subtitles, stdout, stderr, exitStatus, exc, written,
                   trace, endCalls, shutdowns>>

\* A missing-path branch that logs and then goes on into the command instead
\* of ending the run (the variant C2 is checked against)
PathMissingNoExit ==
    /\ pc = "path"
    /\ ~Exists(arguments.path)
    /\ log' = LoggerCritical(log, "Path does not exists", <<arguments.path>>)
    /\ pc' = "find_files"
    /\ UNCHANGED <<inputs, found, idx, input_files, output_files,
                   input_subtitles, stdout, stderr, exitStatus, exc, written,
                   trace, endCalls, shutdowns>>

\* os.path.exists(path) fails: logger.critical, then end() and sys.exit()
PathMissing ==
    /\ pc = "path"
    /\ ~Exists(arguments.path)
    /\ log' = LoggerCritical(log, "Path does not exists", <<arguments.path>>)
    /\ pc' = "end_fatal"
    /\ UNCHANGED <<inputs, found, idx, input_files, output_files,
                   input_subtitles, stdout, stderr, exitStatus, exc, written,
                   trace, endCalls, shutdowns>>

\* find_files(path), at the head of the for loop of either branch
FindFiles ==
    /\ pc = "find_files"
    /\ trace' = Append(trace, Event("find_files", arguments.path, "", 0, NoContent))
    /\ IF FindFilesRaises(arguments.path)
       THEN /\ pc' = "except"
            /\ exc' = "UnboundLocalError"
            /\ UNCHANGED <<found, idx>>
       ELSE /\ found' = find_files(arguments.path)
            /\ idx' = 1
            /\ pc' = IF arguments.command = "convert" THEN "input_files" ELSE "detect"
            /\ exc' = exc
    /\ UNCHANGED <<inputs, input_files, output_files, input_subtitles, log,
                   stdout, stderr, exitStatus, written, endCalls, shutdowns>>

\* One iteration of the loop that fills input_files
InputFile ==
    /\ pc = "input_files"
    /\ idx <= Len(found)
    /\ LET file == found[idx]
       IN  IF ~IsFile(file)
           THEN /\ trace' = Append(trace, Event("detect_encoding", file, "raise", idx, NoContent))
                /\ pc' = "except"
                /\ exc' = "FileNotFoundError"
                /\ UNCHANGED <<idx, input_files>>
           ELSE /\ input_files' = Append(input_files,
                       [path |-> file,
                        encoding |-> detect_encoding(file),
                        format |-> SublibDetect(file, detect_encoding(file))])
                /\ trace' = trace \o
                       << Event("detect_encoding", file, detect_encoding(file), idx, NoContent),
                          Event("detect_encoding", file, detect_encoding(file), idx, NoContent),
                          Event("sublib.detect", file, detect_encoding(file), idx, NoContent) >>
                /\ idx' = idx + 1
                /\ UNCHANGED <<pc, exc>>
    /\ UNCHANGED <<inputs, found, output_files, input_subtitles, log, stdout,
                   stderr, exitStatus, written, endCalls, shutdowns>>

\* logger.info("Input files: ...")
LogInputFiles ==
    /\ pc = "input_files"
    /\ idx > Len(found)
    /\ log' = LoggerInfo(log, "Input files",
                 [i \in 1..Len(input_files) |-> Basename(input_files[i].path)])
    /\ pc' = "output_files"
    /\ UNCHANGED <<inputs, found, idx, input_files, output_files,
                   input_subtitles, stdout, stderr, exitStatus, exc, written,
                   trace, endCalls, shutdowns>>

\* The loop that fills output_files, and logger.info("Output files: ...")
OutputFiles ==
    /\ pc = "output_files"
    /\ output_files' = [i \in 1..Len(input_files) |->
                          [path |-> get_new_path(input_files[i], arguments.form),
                           encoding |-> input_files[i].encoding]]
    /\ log' = LoggerInfo(log, "Output files",
                 [i \in 1..Len(input_files) |-> Basename(output_files'[i].path)])
    /\ pc' = "input_subtitles"
    /\ UNCHANGED <<inputs, found, idx, input_files, input_subtitles, stdout,
                   stderr, exitStatus, exc, written, trace, endCalls, shutdowns>>

\* input_subtitles = [get_subtitle(file) for file in input_files]
InputSubtitles ==
    /\ pc = "input_subtitles"
    /\ input_subtitles' = [i \in 1..Len(input_files) |-> get_subtitle(input_files[i])]
    /\ idx' = 1
    /\ pc' = IF Len(output_files) = 0 THEN "end" ELSE "write_convert"
    /\ UNCHANGED <<inputs, found, input_files, output_files, log, stdout,
                   stderr, exitStatus, exc, written, trace, endCalls, shutdowns>>

\* write_file, up to logger.info("Converted: ...")
WriteConvert ==
    /\ pc = "write_convert"
    /\ LET subtitle == input_subtitles[idx]
       IN  IF subtitle.cls = "dict"
           THEN /\ pc' = "except"
                /\ exc' = "AttributeError"
                /\ log' = log
           ELSE /\ log' = LoggerInfo(log, "Converted", <<Basename(subtitle.path)>>)
                /\ pc' = "write_open"
                /\ exc' = exc
    /\ UNCHANGED <<inputs, found, idx, input_files, output_files,
                   input_subtitles, stdout, stderr, exitStatus, written, trace,
                   endCalls, shutdowns>>

\* A write_file that goes on to log "Saved" without having written the file
\* (the variant C8 is checked against)
WriteOpenSkipped ==
    /\ pc = "write_open"
    /\ pc' = "write_saved"
    /\ UNCHANGED <<inputs, found, idx, input_files, output_files,
                   input_subtitles, log, stdout, stderr, exitStatus, exc,
                   written, trace, endCalls, shutdowns>>

\* write_file: open(file["path"], "wt", encoding=file["encoding"]) and writelines
WriteOpen ==
    /\ pc = "write_open"
    /\ LET new == get_subtitle([format |-> arguments.form, path |-> <<>>, encoding |-> ""])
           lines == GetGeneralFormat(input_subtitles[idx])
           file == output_files[idx]
           data == Content(new, lines)
       IN  /\ written' = [p \in DOMAIN written \cup {file.path} |->
                            IF p = file.path THEN data ELSE written[p]]
           /\ trace' = Append(trace, Event("open_w", file.path, file.encoding, idx, data))
    /\ pc' = "write_saved"
    /\ UNCHANGED <<inputs, found, idx, input_files, output_files,
                   input_subtitles, log, stdout, stderr, exitStatus, exc,
                   endCalls, shutdowns>>

\* write_file: logger.info("Saved: ..."), and the next iteration of the loop
WriteSaved ==
    /\ pc = "write_saved"
    /\ log' = LoggerInfo(log, "Saved", <<Basename(output_files[idx].path)>>)
    /\ idx' = idx + 1
    /\ pc' = IF idx + 1 > Len(output_files) THEN "end" ELSE "write_convert"
    /\ UNCHANGED <<inputs, found, input_files, output_files, input_subtitles,
                   stdout, stderr, exitStatus, exc, written, trace, endCalls,
                   shutdowns>>

\* One iteration of the loop of the detect branch
DetectFile ==
    /\ pc = "detect"
    /\ idx <= Len(found)
    /\ LET file == found[idx]
       IN  IF ~IsFile(file)
           THEN /\ trace' = Append(trace, Event("detect_encoding", file, "raise", idx, NoContent))
                /\ pc' = "except"
                /\ exc' = "FileNotFoundError"
                /\ UNCHANGED <<idx, log, stdout>>
           ELSE LET encoding == detect_encoding(file)
                    frm == SublibDetect(file, encoding)
                IN  /\ trace' = trace \o
                          << Event("detect_encoding", file, encoding, idx, NoContent),
                             Event("sublib.detect", file, encoding, idx, NoContent) >>
                    /\ log' = LoggerInfo(log, "is in format", <<Basename(file), <<forms(frm)>> >>)
                    /\ stdout' = Append(stdout, Line("is in format", Basename(file), forms(frm)))
                    /\ idx' = idx + 1
                    /\ UNCHANGED <<pc, exc>>
    /\ UNCHANGED <<inputs, found, input_files, output_files, input_subtitles,
                   stderr, exitStatus, written, endCalls, shutdowns>>

\* The detect loop is over
DetectDone ==
    /\ pc = "detect"
    /\ idx > Len(found)
    /\ pc' = "end"
    /\ UNCHANGED <<inputs, found, idx, input_files, output_files,
                   input_subtitles, log, stdout, stderr, exitStatus, exc,
                   written, trace, endCalls, shutdowns>>

\* end(logger, logfile, start)
End ==
    /\ pc \in {"end", "end_fatal"}
    /\ log' = LoggerInfo(LoggerInfo(log, "Execution time", <<>>), "END", <<>>)
    /\ shutdowns' = shutdowns + 1
    /\ endCalls' = endCalls + 1
    /\ pc' = IF pc = "end_fatal" THEN "sys_exit" ELSE "return"
    /\ UNCHANGED <<inputs, found, idx, input_files, output_files,
                   input_subtitles, stdout, stderr, exitStatus, exc, written,
                   trace>>

\* sys.exit("Path does not exists: ..."): SystemExit is no Exception, so the
\* handler of __main__ lets it through; the message goes to stderr, status 1
SysExit ==
    /\ pc = "sys_exit"
    /\ stderr' = Append(stderr, Line("Path does not exists", arguments.path, ""))
    /\ exitStatus' = 1
    /\ pc' = "exited"
    /\ UNCHANGED <<inputs, found, idx, input_files, output_files,
                   input_subtitles, log, stdout, exc, written, trace, endCalls,
                   shutdowns>>

\* main returns and the script ends
Return ==
    /\ pc = "return"
    /\ exitStatus' = 0
    /\ pc' = "exited"
    /\ UNCHANGED <<inputs, found, idx, input_files, output_files,
                   input_subtitles, log, stdout, stderr, exc, written, trace,
                   endCalls, shutdowns>>

\* except Exception: the two prints, and the script ends
Except ==
    /\ pc = "except"
    /\ stdout' = stdout \o << Line("An unknown error has occurred:", <<>>, ""),
                              Line(exc, <<>>, "") >>
    /\ exitStatus' = 0
    /\ pc' = "exited"
    /\ UNCHANGED <<inputs, found, idx, input_files, output_files,
                   input_subtitles, log, stderr, exc, written, trace, endCalls,
                   shutdowns>>

Next ==
    \/ Start
    \/ PathFound
    \/ PathMissing
    \/ FindFiles
    \/ InputFile
    \/ LogInputFiles
    \/ OutputFiles
    \/ InputSubtitles
    \/ WriteConvert
    \/ WriteOpen
    \/ WriteSaved
    \/ DetectFile
    \/ DetectDone
    \/ End
    \/ SysExit
    \/ Return
    \/ Except

Spec == Init /\ [][Next]_vars

----------------------------------------------------------------------------
(* Vocabulary of the properties *)

Terminated == pc = "exited"

Range(s) == {s[i] : i \in 1..Len(s)}

IsPrefix(s, t) == Len(s) <= Len(t) /\ SubSeq(t, 1, Len(s)) = s

\* The events of the history with this operation
Events(op) == {k \in 1..Len(trace) : trace[k].op = op}

\* The write_file call for the i-th file has got as far as raising or
\* logging "Converted"
Attempted(i) ==
    /\ i <= Len(input_subtitles)
    /\ \/ idx > i
       \/ idx = i /\ pc \in {"write_open", "write_saved", "except", "exited"}

\* Some printed line or log record names file f as a failure
ReportsFailureOf(f) ==
    \/ \E k \in 1..Len(stdout) :
          stdout[k].text # "is in format" /\ stdout[k].file \in {f, Basename(f)}
    \/ \E k \in 1..Len(log) :
          /\ log[k].msg \notin {"START", "Path", "Input files", "Output files",
                                "Converted", "Saved", "Execution time", "END"}
          /\ \E j \in 1..Len(log[k].arg) : log[k].arg[j] \in {f, Basename(f)}

\* The adapter the specification assigns to each format tag
AdapterName(tag) ==
    CASE tag = "mpl" -> "MPlayer2"
      [] tag = "srt" -> "SubRip"
      [] tag = "sub" -> "MicroDVD"
      [] tag = "tmp" -> "TMPlayer"

\* The canonical extension of each target format
Extension(frm) == IF frm \in {"mpl", "tmp"} THEN Chars("txt") ELSE Chars(frm)

\* os.path.splitext of a path: the extension starts at the last dot of the
\* file name, a leading dot of the file name not counting
StemEnd(p) ==
    LET first == LastSep(p) + 1
        hits == {i \in (first + 1)..Len(p) : p[i] = "."}
    IN  IF hits = {} THEN Len(p)
        ELSE (CHOOSE i \in hits : \A j \in hits : j <= i) - 1

\* The path with only its extension replaced
ReplacedExtension(p, frm) == SubSeq(p, 1, StemEnd(p)) \o <<".">> \o Extension(frm)

\* The files of the tree rooted at p
TreeFiles(p) ==
    IF p \in DOMAIN disk THEN {p}
    ELSE {f \in DOMAIN disk : IsPrefix(p \o <<ossep>>, f)}

----------------------------------------------------------------------------
(* C1: in a convert run, the conversion of every input file whose detected *)
(* format is "undefined" fails explicitly: nothing is written for it, and  *)
(* once the run is over the failure has been reported as a failure of that *)
(* file.                                                                   *)
C1_UndefinedFailsExplicitly ==
    \A i \in 1..Len(input_files) :
       (input_files[i].format = "undefined" /\ Attempted(i)) =>
          /\ \A k \in Events("open_w") : trace[k].i # i
          /\ Terminated => ReportsFailureOf(input_files[i].path)

(* C2: when the path does not exist, the run makes no discovery, encoding  *)
(* detection, classification or write at any time, it can always take its  *)
(* next step until it has terminated, and it terminates with a non-zero    *)
(* status and a printed message; with and without the log flag.            *)
C2_MissingPathIsFatal ==
    ~Exists(arguments.path) =>
       /\ trace = <<>>
       /\ DOMAIN written = {}
       /\ found = <<>>
       /\ ~Terminated => ENABLED Next
       /\ Terminated => (exitStatus # 0 /\ stderr # <<>> /\ exc = "none")

C2_Witness ==
    /\ ~Exists(arguments.path)
    /\ ~arguments.log
    /\ Terminated
    /\ exitStatus = 1

(* C3: every output path is the input path with only its file-name         *)
(* extension replaced by the canonical extension of the target format.     *)
C3_NewPathReplacesExtension ==
    \A i \in 1..Len(output_files) :
       output_files[i].path = ReplacedExtension(input_files[i].path, arguments.form)

(* C4: when a convert run over an existing path is over, every discovered  *)
(* file that can be converted has been written and the end-of-run step has *)
(* run, whatever happened to the other files.                              *)
C4_FailureIsIsolated ==
    (Terminated /\ arguments.command = "convert" /\ Exists(arguments.path)) =>
       /\ endCalls = 1
       /\ \A i \in 1..Len(found) :
             (found[i] \in DOMAIN disk /\ disk[found[i]].format \in Formats) =>
                \E k \in Events("open_w") : trace[k].i = i

(* C5: once discovery has returned, the files to process are exactly the   *)
(* files of the tree rooted at the path (the path itself when it is a      *)
(* file), each listed once and each an existing file.                      *)
C5_ProcessesEveryFileOfTheTree ==
    (Events("find_files") # {} /\ exc # "UnboundLocalError") =>
       /\ Range(found) = TreeFiles(arguments.path)
       /\ \A i, j \in 1..Len(found) : i # j => found[i] # found[j]
       /\ \A i \in 1..Len(found) : found[i] \in DOMAIN disk

(* C6: tags map to adapters and names as mpl -> MPlayer2, srt -> SubRip,   *)
(* sub -> MicroDVD, tmp -> TMPlayer, in get_subtitle and in the detect     *)
(* branch; the source adapter of each file is that of its detected tag,    *)
(* what is written is the requested format's serialization of the general  *)
(* format of that source adapter, and detect prints the mapped name, with  *)
(* "Unknown" for "undefined".                                              *)
C6_TagsMapToAdapters ==
    /\ \A i \in 1..Len(input_subtitles) :
          input_files[i].format \in Formats =>
             input_subtitles[i] = [cls |-> AdapterName(disk[found[i]].format),
                                   path |-> found[i],
                                   encoding |-> input_files[i].encoding]
    /\ \A k \in Events("open_w") :
          /\ trace[k].data.cls = AdapterName(arguments.form)
          /\ trace[k].data.lines =
                [of |-> AdapterName(disk[found[trace[k].i]].format),
                 path |-> found[trace[k].i],
                 encoding |-> input_files[trace[k].i].encoding]
          /\ trace[k].file = output_files[trace[k].i].path
    /\ arguments.command = "detect" =>
          \A k \in 1..Len(stdout) :
             stdout[k].text = "is in format" =>
                /\ stdout[k].file = Basename(found[k])
                /\ stdout[k].form =
                      IF disk[found[k]].format = "undefined" THEN "Unknown"
                      ELSE AdapterName(disk[found[k]].format)

C6_Witness ==
    /\ Terminated
    /\ \E k \in Events("open_w") :
          trace[k].data.cls = "TMPlayer" /\ trace[k].data.lines.of = "SubRip"

(* C7: in a convert run the encoding the detector returns for a file, also *)
(* when it is no encoding, is the one the file is classified with, the one *)
(* its source adapter is built with and the one its output file is opened  *)
(* with.                                                                   *)
C7_EncodingPropagatesUnchanged ==
    arguments.command = "convert" =>
       /\ \A k \in Events("sublib.detect") : trace[k].enc = Chardet(trace[k].file)
       /\ \A i \in 1..Len(input_files) : input_files[i].encoding = Chardet(found[i])
       /\ \A i \in 1..Len(output_files) : output_files[i].encoding = Chardet(found[i])
       /\ \A i \in 1..Len(input_subtitles) : input_subtitles[i].encoding = Chardet(found[i])
       /\ \A k \in Events("open_w") : trace[k].enc = Chardet(found[trace[k].i])

C7_Witness ==
    /\ Terminated
    /\ \E k \in Events("open_w") : trace[k].enc = "None"
    /\ \E k \in Events("open_w") : trace[k].enc = "utf-8"

\* The "Converted" and "Saved" records of the first n files, in order
PerFile(n) ==
    [k \in 1..(2 * n) |->
        IF k % 2 = 1
        THEN Record("Converted", <<Basename(found[(k + 1) \div 2])>>)
        ELSE Record("Saved", <<Basename(output_files[k \div 2].path)>>)]

\* The records of a whole convert run
WholeLog ==
    << Record("START", <<>>),
       Record("Path", <<arguments.path>>),
       Record("Input files", [i \in 1..Len(found) |-> Basename(found[i])]),
       Record("Output files", [i \in 1..Len(found) |-> Basename(output_files[i].path)]) >>
    \o PerFile(Len(found))
    \o << Record("Execution time", <<>>), Record("END", <<>>) >>

\* How many of the first k records are "Saved"
SavedIn(k) == Cardinality({j \in 1..k : log[j].msg = "Saved"})

(* C8: in a convert run with logging, at every moment each "Saved" record  *)
(* directly follows the "Converted" record of the same file and the output *)
(* of that file has been written by then; when the run ends without a      *)
(* failure the log is START, Path, Input files, Output files, the          *)
(* Converted and Saved records of each file in discovery order, Execution  *)
(* time, END.                                                              *)
C8_LogOrder ==
    (arguments.command = "convert" /\ arguments.log) =>
       /\ \A k \in 1..Len(log) :
             log[k].msg = "Saved" =>
                /\ k > 1
                /\ log[k - 1].msg = "Converted"
                /\ log[k - 1].arg = <<Basename(found[SavedIn(k)])>>
                /\ log[k].arg = <<Basename(output_files[SavedIn(k)].path)>>
                /\ \E e \in Events("open_w") :
                      /\ trace[e].i = SavedIn(k)
                      /\ trace[e].file = output_files[SavedIn(k)].path
       /\ (Terminated /\ exc = "none" /\ Exists(arguments.path)) => log = WholeLog

C8_Witness ==
    /\ arguments.command = "convert"
    /\ arguments.log
    /\ Terminated
    /\ exc = "none"
    /\ Len(found) = 2
    /\ Len(log) = 10

(* C9: when a run that logged START is over, the end-of-run step has run   *)
(* exactly once: Execution time and END are the last records and logging   *)
(* was shut down once.                                                     *)
C9_EndOfRunAlwaysRuns ==
    (Terminated /\ log # <<>> /\ log[1].msg = "START") =>
       /\ endCalls = 1
       /\ shutdowns = 1
       /\ Len(log) >= 3
       /\ log[Len(log) - 1].msg = "Execution time"
       /\ log[Len(log)].msg = "END"

(* C10: in a convert run any two distinct input files have distinct output *)
(* paths, and no output path is the path of another input file.            *)
C10_OutputsDoNotInterfere ==
    \A i, j \in 1..Len(output_files) :
       i # j =>
          /\ output_files[i].path # output_files[j].path
          /\ output_files[i].path # input_files[j].path

====
